---- MODULE Spec2Model ----
(***************************************************************************)
(* The auth-aware request client of the admin panel (utils/api) and the    *)
(* login page that feeds it.  One document of the browser is modelled: the *)
(* cookie jar, the defaults of the axios instance, the requests that are   *)
(* in flight and, for each of them, the chain of response-interceptor      *)
(* invocations that are suspended on `await api.post('/auth/refresh')`.    *)
(* A server response is one macrotask: the whole promise chain it wakes    *)
(* up (interceptor, catch blocks, the resubmission's request interceptor)  *)
(* runs to the next network boundary inside one action.                    *)
(***************************************************************************)
EXTENDS Integers, Sequences, FiniteSets, TLC

\* ---- bounds of the model ----
MaxReq == 2
MaxDepth == 3
MaxTok == 3
MaxPathLen == 4
MaxIds == 2
MaxCalls == 2
MaxOdd == 2
MaxMounts == 2
MaxTimers == 3
MaxPending == 2
MaxDevices == 6
MaxUserCalls == 3

\* ---- values of the program ----
Undefined == 0
NoResponse == 0
AccessExpiryDays == 1
RefreshExpiryDays == 7
FallbackAxios == "An error occurred"
FallbackOther == "An unexpected error occurred"
NoRefreshTokenText == "No refresh token available"
LoginUrl == "/auth/login"
RefreshUrl == "/auth/refresh"
ResourceUrl == "/users"
LoginPage == "/login"
DashboardPage == "/dashboard"

Req == 1..MaxReq
Gen == 1..MaxTok
CookieNames == {"accessToken", "refreshToken"}
FailureStatuses == {401, 500, NoResponse}
ServerBodies == {[hasMessage |-> TRUE, message |-> "Invalid credentials"]}

VARIABLES
  cookies,      \* the cookie jar: name -> [value, expires]
  defaultAuth,  \* api.defaults.headers.common['Authorization'] (token or Undefined)
  location,     \* route of the current document
  reloading,    \* window.location.href was assigned: a hard navigation is pending
  pc,           \* per logical request: "idle", "flight" or "done"
  stack,        \* per logical request: request configs, the last one is on the wire
  outcome,      \* per logical request: what the caller's promise settled with
  hist,         \* per logical request: what the client did for it so far
  errIn,        \* value handed to handleApiError
  errOut,       \* what handleApiError returned for errIn
  prevIn,       \* the value of the previous call of handleApiError
  prevOut,      \* the result of the previous call of handleApiError
  navPath,      \* pathname of the navigation handed to the route guard
  navCookie,    \* the accessToken cookie sent with that navigation
  navDecision,  \* what the route guard answered: "none", "next" or "redirect"
  page,         \* the page component that is mounted
  loading,      \* its loading state
  rows,         \* its collection state (users, roles, companies, devices)
  refs,         \* its reference list state (companies of the forms)
  pageError,    \* its error state; "" stands for null
  fieldError,   \* the inline message of the password field; "" when there is none
  dialog,       \* its modal / form: open, and the entity being edited (0: none)
  calls,        \* the API calls it has pending, by slot
  fetched,      \* ids of the last collection the page was given
  deleted,      \* ids whose DELETE call succeeded since then
  formKind,     \* the edit form at hand: "user", "role" or "device"
  fetchedEntity,\* the entity as the server sent it, field by field
  formValues,   \* the values the form holds, field by field
  formStep,     \* "fetched", "open", then "sent" or "blocked"
  updateCalls,  \* the payloads of the update calls the form issued
  dashMounted,  \* a Dashboard component is mounted
  dashInst,     \* how many Dashboard components were mounted so far
  timers,       \* interval timer id -> the Dashboard that set it (0: not active)
  nextTimer,    \* the last timer id setInterval handed out
  interval,     \* the id the cleanup of the current effect closed over (0: none)
  fetches,      \* <<url, Dashboard>> -> its calls waiting for an answer
  stats,        \* url -> the data the mounted Dashboard holds (0: initial)
  deviceRows,   \* the devices state of the devices page, in the order fetched
  searchTerm,   \* its search box
  tablePage,    \* its page state: the index of the page of the table
  rowsPerPage,  \* its rowsPerPage state
  srvUsers,     \* the server's user collection (ids)
  users,        \* the users state of the users page (ids of the rows)
  usersLoading, \* its loading state (the spinner replaces the page)
  usersError,   \* its error state, with the call site that set it
  companies,    \* whether its companies state was filled
  userCalls     \* its calls on the wire, in the order they were sent

clientVars == <<cookies, defaultAuth, location, reloading, pc, stack, outcome, hist>>
errVars == <<errIn, errOut, prevIn, prevOut>>
guardVars == <<navPath, navCookie, navDecision>>
pageVars == <<page, loading, rows, refs, pageError, fieldError, dialog, calls, fetched, deleted>>
\* what a step of the client, a call of handleApiError, a navigation and a step
\* of a page leave alone
formVars == <<formKind, fetchedEntity, formValues, formStep, updateCalls>>
dashVars == <<dashMounted, dashInst, timers, nextTimer, interval, fetches, stats>>
tableVars == <<deviceRows, searchTerm, tablePage, rowsPerPage>>
usersVars == <<srvUsers, users, usersLoading, usersError, companies, userCalls>>
besideClient == <<errVars, guardVars, pageVars, formVars, dashVars, tableVars, usersVars>>
besideErr == <<clientVars, guardVars, pageVars, formVars, dashVars, tableVars, usersVars>>
besideGuard == <<clientVars, errVars, pageVars, formVars, dashVars, tableVars, usersVars>>
besidePage == <<clientVars, errVars, guardVars, formVars, dashVars, tableVars, usersVars>>
besideForm == <<clientVars, errVars, guardVars, pageVars, dashVars, tableVars, usersVars>>
besideDash == <<errVars, guardVars, pageVars, formVars, tableVars, usersVars>>
besideTable == <<clientVars, errVars, guardVars, pageVars, formVars, dashVars, usersVars>>
besideUsers == <<clientVars, errVars, guardVars, pageVars, formVars, dashVars, tableVars>>
vars == <<cookies, defaultAuth, location, reloading, pc, stack, outcome, hist,
          errIn, errOut, prevIn, prevOut, navPath, navCookie, navDecision,
          page, loading, rows, refs, pageError, fieldError, dialog, calls, fetched, deleted,
          formKind, fetchedEntity, formValues, formStep, updateCalls,
          dashMounted, dashInst, timers, nextTimer, interval, fetches, stats,
          deviceRows, searchTerm, tablePage, rowsPerPage,
          srvUsers, users, usersLoading, usersError, companies, userCalls>>

\* ---- cookie jar (js-cookie) ----
NoCookie == [value |-> Undefined, expires |-> Undefined]
EmptyJar == [n \in CookieNames |-> NoCookie]
CookiesGet(jar, name) == jar[name].value
CookiesSet(jar, name, value, days) ==
  [jar EXCEPT ![name] = [value |-> value, expires |-> days]]
CookiesRemove(jar, name) == [jar EXCEPT ![name] = NoCookie]
\* variant: the two lifetimes are exchanged
StoreTokens_SwappedExpiry(jar, accessToken, refreshToken) ==
  CookiesSet(CookiesSet(jar, "accessToken", accessToken, RefreshExpiryDays),
             "refreshToken", refreshToken, AccessExpiryDays)
StoreTokens(jar, accessToken, refreshToken) ==
  CookiesSet(CookiesSet(jar, "accessToken", accessToken, AccessExpiryDays),
             "refreshToken", refreshToken, RefreshExpiryDays)
\* variant: the refresh cookie is left in the jar
ClearTokens_AccessOnly(jar) == CookiesRemove(jar, "accessToken")
ClearTokens(jar) == CookiesRemove(CookiesRemove(jar, "accessToken"), "refreshToken")

\* ---- values that can be thrown or rejected ----
AxiosError(url, status, body) ==
  [type |-> "object", isAxiosError |-> TRUE, hasResponse |-> status # NoResponse,
   dataKind |-> IF status # NoResponse THEN "object" ELSE "none",
   hasMessage |-> status # NoResponse /\ body.hasMessage,
   message |-> IF status # NoResponse THEN body.message ELSE "",
   status |-> status, url |-> url, text |-> "AxiosError"]
NoRefreshTokenError ==
  [type |-> "object", isAxiosError |-> FALSE, hasResponse |-> FALSE,
   dataKind |-> "none", hasMessage |-> FALSE, message |-> "",
   status |-> NoResponse, url |-> "", text |-> NoRefreshTokenText]
NoValue ==
  [type |-> "undefined", isAxiosError |-> FALSE, hasResponse |-> FALSE,
   dataKind |-> "none", hasMessage |-> FALSE, message |-> "",
   status |-> NoResponse, url |-> "", text |-> ""]

Pending == [kind |-> "pending"]
Resolved == [kind |-> "resolved"]
Rejected(e) == [kind |-> "rejected", error |-> e]

\* ---- request configs and the request interceptor ----
Top(s) == s[Len(s)]
\* variant: the body of the call is left out
NewConfig_NoBody(url, body) == [url |-> url, retry |-> FALSE, auth |-> Undefined, body |-> Undefined]
NewConfig(url, body) == [url |-> url, retry |-> FALSE, auth |-> Undefined, body |-> body]
MergeDefaults(config) ==
  IF config.auth # Undefined THEN config ELSE [config EXCEPT !.auth = defaultAuth]
RequestInterceptor(jar, config) ==
  LET token == CookiesGet(jar, "accessToken")
  IN IF token # Undefined THEN [config EXCEPT !.auth = token] ELSE config
Dispatch(jar, config) == RequestInterceptor(jar, MergeDefaults(config))

\* ---- tokens the server can issue ----
UsedTokens ==
  {cookies[n].value : n \in CookieNames} \cup {defaultAuth}
    \cup UNION {UNION {{stack[r][i].auth, stack[r][i].body} : i \in 1..Len(stack[r])} : r \in Req}
FreshTokens == Gen \ UsedTokens
IssuedToken == CHOOSE g \in FreshTokens : \A h \in FreshTokens : g <= h

\* ---- history kept for each logical request ----
NoHist ==
  [refreshCalls |-> 0, retries |-> 0, redirected |-> FALSE, phases |-> <<>>,
   overtaken |-> FALSE]
Phase(h, ps) == [h EXCEPT !.phases = h.phases \o ps]
Settle(r, result, h) ==
  /\ pc' = [pc EXCEPT ![r] = "done"]
  /\ stack' = [stack EXCEPT ![r] = <<>>]
  /\ outcome' = [outcome EXCEPT ![r] = result]
  /\ hist' = [hist EXCEPT ![r] = h]

\* ---- the response interceptor's decisions ----
\* variants: the marker is not consulted; every failure status is taken for a 401
ShouldRefresh_IgnoresMarker(status, config) == status = 401
ShouldRefresh_AnyFailure(status, config) == ~config.retry
\* if (error.response?.status === 401 && !originalRequest._retry)
ShouldRefresh(status, config) == status = 401 /\ ~config.retry
\* variant: the marker is never set
MarkRetried_Forgets(config) == config
\* originalRequest._retry = true
MarkRetried(config) == [config EXCEPT !.retry = TRUE]
\* variant: the missing token is not noticed
RefreshTokenMissing_Never(refreshToken) == FALSE
\* if (!refreshToken) throw
RefreshTokenMissing(refreshToken) == refreshToken = Undefined
PatchAuthorization(config, accessToken) == [config EXCEPT !.auth = accessToken]

\* ---- a page calls the client ----
SendRequest(r, url) ==
  /\ pc[r] # "flight"
  /\ stack' = [stack EXCEPT ![r] = <<Dispatch(cookies, NewConfig(url, Undefined))>>]
  /\ pc' = [pc EXCEPT ![r] = "flight"]
  /\ outcome' = [outcome EXCEPT ![r] = Pending]
  /\ hist' = [hist EXCEPT ![r] = Phase(NoHist, <<"INITIAL">>)]
  /\ UNCHANGED <<cookies, defaultAuth, location, reloading>>
  /\ UNCHANGED besideClient

\* Login.onSubmit up to its await: api.post('/auth/login', data); the submit
\* button is disabled while a login call is pending (setLoading(true))
SendLogin(r) ==
  /\ location = LoginPage
  /\ \A q \in Req : pc[q] = "flight" => stack[q][1].url # LoginUrl
  /\ SendRequest(r, LoginUrl)

\* a protected page fetching or submitting: api.get('/users'), ...
SendResource(r) ==
  /\ location # LoginPage
  /\ SendRequest(r, ResourceUrl)

\* ---- the server answers the request on the wire of r ----
\* 2xx to a page's request: (response) => response, the caller's await resumes
RespondSuccess(r) ==
  /\ pc[r] = "flight"
  /\ Len(stack[r]) = 1
  /\ Top(stack[r]).url = ResourceUrl
  /\ Settle(r, Resolved, Phase(hist[r], <<"DONE">>))
  /\ UNCHANGED <<cookies, defaultAuth, location, reloading>>
  /\ UNCHANGED besideClient

\* 2xx to the login call: Login.onSubmit stores the pair and configures the client
LoginSuccess(r) ==
  /\ pc[r] = "flight"
  /\ Len(stack[r]) = 1
  /\ Top(stack[r]).url = LoginUrl
  /\ FreshTokens # {}
  /\ cookies' = StoreTokens(cookies, IssuedToken, IssuedToken)
  /\ defaultAuth' = IssuedToken
  /\ location' = DashboardPage
  /\ pc' = [pc EXCEPT ![r] = "done"]
  /\ stack' = [stack EXCEPT ![r] = <<>>]
  /\ outcome' = [outcome EXCEPT ![r] = Resolved]
  /\ hist' = [q \in Req |->
               IF q = r THEN Phase(hist[r], <<"DONE">>)
               ELSE IF pc[q] = "flight" /\ Len(stack[q]) > 1
               THEN [hist[q] EXCEPT !.overtaken = TRUE]
               ELSE hist[q]]
  /\ UNCHANGED reloading
  /\ UNCHANGED besideClient

\* 2xx to a refresh call: the interceptor suspended below it stores the new pair,
\* patches its request and resubmits it through the same client
RefreshSuccess(r) ==
  /\ pc[r] = "flight"
  /\ Len(stack[r]) > 1
  /\ FreshTokens # {}
  /\ LET n == Len(stack[r])
         jar == StoreTokens(cookies, IssuedToken, IssuedToken)
         originalRequest == PatchAuthorization(stack[r][n - 1], IssuedToken)
         h == IF n = 2
              THEN [Phase(hist[r], <<"RETRIED">>) EXCEPT !.retries = @ + 1]
              ELSE [Phase(hist[r], <<"REFRESHING">>) EXCEPT !.refreshCalls = @ + 1]
     IN /\ cookies' = jar
        /\ stack' = [stack EXCEPT ![r] =
                       SubSeq(stack[r], 1, n - 2) \o <<Dispatch(jar, originalRequest)>>]
        /\ hist' = [hist EXCEPT ![r] = h]
  /\ UNCHANGED <<defaultAuth, location, reloading, pc, outcome>>
  /\ UNCHANGED besideClient

\* a failure that enters the 401 branch with a refresh token stored:
\* the request is marked and api.post('/auth/refresh', {refreshToken}) goes out
UnauthorizedRefresh(r, status) ==
  /\ pc[r] = "flight"
  /\ ShouldRefresh(status, Top(stack[r]))
  /\ ~RefreshTokenMissing(CookiesGet(cookies, "refreshToken"))
  /\ Len(stack[r]) < MaxDepth
  /\ LET n == Len(stack[r])
         refreshToken == CookiesGet(cookies, "refreshToken")
         marked == [stack[r] EXCEPT ![n] = MarkRetried(@)]
     IN stack' = [stack EXCEPT ![r] =
                    Append(marked, Dispatch(cookies, NewConfig(RefreshUrl, refreshToken)))]
  /\ hist' = [hist EXCEPT ![r] =
                [Phase(@, <<"UNAUTHORIZED", "REFRESHING">>) EXCEPT !.refreshCalls = @ + 1]]
  /\ UNCHANGED <<cookies, defaultAuth, location, reloading, pc, outcome>>
  /\ UNCHANGED besideClient

\* a failure that enters the 401 branch with no refresh token stored: the throw
\* is caught by the catch block (and by those of the interceptors suspended below)
UnauthorizedNoRefreshToken(r, status) ==
  /\ pc[r] = "flight"
  /\ ShouldRefresh(status, Top(stack[r]))
  /\ RefreshTokenMissing(CookiesGet(cookies, "refreshToken"))
  /\ cookies' = ClearTokens(cookies)
  /\ reloading' = TRUE
  /\ Settle(r, Rejected(NoRefreshTokenError),
            [Phase(hist[r], <<"UNAUTHORIZED", "DONE">>) EXCEPT !.redirected = TRUE])
  /\ UNCHANGED <<defaultAuth, location>>
  /\ UNCHANGED besideClient

\* a failure of a page's request that does not enter the 401 branch:
\* return Promise.reject(error)
PropagateFailure(r, status, body) ==
  /\ pc[r] = "flight"
  /\ Len(stack[r]) = 1
  /\ ~ShouldRefresh(status, Top(stack[r]))
  /\ Settle(r, Rejected(AxiosError(Top(stack[r]).url, status, body)),
            Phase(hist[r], <<"DONE">>))
  /\ UNCHANGED <<cookies, defaultAuth, location, reloading>>
  /\ UNCHANGED besideClient

\* a failure of a refresh call that does not enter the 401 branch: it rejects the
\* await of the interceptor below, whose catch block clears, redirects and rejects
RefreshFailure(r, status, body) ==
  /\ pc[r] = "flight"
  /\ Len(stack[r]) > 1
  /\ ~ShouldRefresh(status, Top(stack[r]))
  /\ cookies' = ClearTokens(cookies)
  /\ reloading' = TRUE
  /\ Settle(r, Rejected(AxiosError(Top(stack[r]).url, status, body)),
            [Phase(hist[r], <<"REDIRECT", "DONE">>) EXCEPT !.redirected = TRUE])
  /\ UNCHANGED <<defaultAuth, location>>
  /\ UNCHANGED besideClient

\* a dashboard fetch is rejected with 401 (its request was resubmitted already):
\* Promise.reject(error), then the catch block of fetchStats / fetchDeviceData
\* does router.replace('/login'), a navigation inside the same document
DashboardFetchRejected(r, body) ==
  /\ location = DashboardPage
  /\ pc[r] = "flight"
  /\ Len(stack[r]) = 1
  /\ Top(stack[r]).url = ResourceUrl
  /\ ~ShouldRefresh(401, Top(stack[r]))
  /\ location' = LoginPage
  /\ Settle(r, Rejected(AxiosError(Top(stack[r]).url, 401, body)),
            Phase(hist[r], <<"DONE">>))
  /\ UNCHANGED <<cookies, defaultAuth, reloading>>
  /\ UNCHANGED besideClient

\* ---- the browser ----
\* a cookie reaches its expiry and leaves the jar; the two cookies are always
\* written together, so the one with the shorter life goes first
ExpireCookie(name) ==
  /\ cookies[name] # NoCookie
  /\ \A other \in CookieNames :
       cookies[other] # NoCookie => cookies[name].expires <= cookies[other].expires
  /\ cookies' = CookiesRemove(cookies, name)
  /\ UNCHANGED <<defaultAuth, location, reloading, pc, stack, outcome, hist>>
  /\ UNCHANGED besideClient

\* the hard navigation started by window.location.href = '/login' completes:
\* a new document, a new axios instance, nothing in flight; the jar is kept
LoadLoginPage ==
  /\ reloading
  /\ reloading' = FALSE
  /\ location' = LoginPage
  /\ defaultAuth' = Undefined
  /\ pc' = [r \in Req |-> "idle"]
  /\ stack' = [r \in Req |-> <<>>]
  /\ outcome' = [r \in Req |-> Pending]
  /\ hist' = [r \in Req |-> NoHist]
  /\ UNCHANGED cookies
  /\ UNCHANGED besideClient

\* ---- handleApiError ----
NotCalled == [called |-> FALSE, threw |-> FALSE, value |-> ""]
Returned(s) == [called |-> TRUE, threw |-> FALSE, value |-> s]
Threw == [called |-> TRUE, threw |-> TRUE, value |-> ""]
NoProperty == [threw |-> FALSE, defined |-> FALSE, str |-> ""]
Property(s) == [threw |-> FALSE, defined |-> TRUE, str |-> s]
TypeError == [threw |-> TRUE, defined |-> FALSE, str |-> ""]
Truthy(x) == x.defined /\ x.str # ""

\* axios.isAxiosError: isObject(payload) && payload.isAxiosError === true
IsObject(v) == v.type = "object"
isAxiosError(payload) == IsObject(payload) /\ payload.isAxiosError

\* error.response.data.message with no optional chaining
ResponseMessage_Unchained(error) ==
  IF ~error.hasResponse \/ error.dataKind = "none" THEN TypeError
  ELSE IF error.dataKind = "object" /\ error.hasMessage THEN Property(error.message)
  ELSE NoProperty

\* error.response?.data?.message
ResponseMessage(error) ==
  IF ~error.hasResponse \/ error.dataKind = "none" THEN NoProperty
  ELSE IF error.dataKind = "object" /\ error.hasMessage THEN Property(error.message)
  ELSE NoProperty

handleApiError(error) ==
  IF isAxiosError(error)
  THEN LET message == ResponseMessage(error)
       IN IF message.threw THEN Threw
          ELSE Returned(IF Truthy(message) THEN message.str ELSE FallbackAxios)
  ELSE Returned(FallbackOther)

\* the values a catch block can hand over: primitives, plain objects and errors,
\* with or without a response, a body and a message in it
Primitives == {[NoValue EXCEPT !.type = t] : t \in {"undefined", "null", "string", "number"}}
ResponseShapes ==
  {[dataKind |-> "none", hasMessage |-> FALSE, message |-> ""],
   [dataKind |-> "text", hasMessage |-> FALSE, message |-> ""],
   [dataKind |-> "object", hasMessage |-> FALSE, message |-> ""],
   [dataKind |-> "object", hasMessage |-> TRUE, message |-> ""],
   [dataKind |-> "object", hasMessage |-> TRUE, message |-> "Invalid credentials"],
   [dataKind |-> "object", hasMessage |-> TRUE, message |-> "Email already in use"]}
Objects ==
  {[type |-> "object", isAxiosError |-> a, hasResponse |-> FALSE, dataKind |-> "none",
    hasMessage |-> FALSE, message |-> "", status |-> NoResponse, url |-> ResourceUrl,
    text |-> "Error"] : a \in BOOLEAN}
  \cup
  {[type |-> "object", isAxiosError |-> a, hasResponse |-> TRUE, dataKind |-> s.dataKind,
    hasMessage |-> s.hasMessage, message |-> s.message, status |-> st, url |-> ResourceUrl,
    text |-> "Error"] : a \in BOOLEAN, s \in ResponseShapes, st \in {401, 500}}
ErrorValues == Primitives \cup Objects

\* a catch block of a page: setError(handleApiError(err))
CallHandleApiError(v) ==
  /\ prevIn' = errIn
  /\ prevOut' = errOut
  /\ errIn' = v
  /\ errOut' = handleApiError(v)
  /\ UNCHANGED besideErr

\* ---- the resource pages ----
Ids == 1..MaxIds
Slots == 1..MaxCalls
Pages ==
  {"dashboard", "users", "roles", "companies", "devices", "devices/new",
   "devices/[id]", "devices/[id]/payload"}
\* the pages with a modal form, and those whose form is the page
ModalPages == {"users", "roles", "companies"}
FormPages == {"devices/new", "devices/[id]"}
ItemPages == {"devices/[id]", "devices/[id]/payload"}

\* the value of a collection state: an array of entities, or the envelope object
\* stored as it came
Array(ids) == [isArray |-> TRUE, ids |-> ids]
NotArray == [isArray |-> FALSE, ids |-> {}]
\* response.data of a list endpoint: { success, data: [...] } or a bare array
Envelopes == {"envelope", "array"}
ListBodies == {[shape |-> e, ids |-> ids] : e \in Envelopes, ids \in SUBSET Ids}
NoBody == [shape |-> "none", ids |-> {}]
\* what setX(response.data) stores
Data(body) == IF body.shape = "array" THEN Array(body.ids) ELSE NotArray

\* the strings pages set by themselves
PasswordRequired == "Password is required for new users"
PasswordTooShort == "Password must be at least 8 characters"
FailedCompanies == "Failed to fetch companies"
FailedDevice == "Failed to fetch device details"
FailedSchema == "Failed to update payload schema"
\* new Error('Invalid response format ...') as a value handed to handleApiError
InvalidFormatError == [NoRefreshTokenError EXCEPT !.text = "Invalid response format"]
\* what a rejected call can reject with
CallErrors ==
  {AxiosError(ResourceUrl, status, body) : status \in {500, NoResponse}, body \in ServerBodies}

\* a pending call: what it asks for, through which client, and the collection
\* its handler closed over
NoCall ==
  [kind |-> "none", id |-> 0, password |-> "absent", client |-> "none", closure |-> Array({})]
Call(kind, id, password, client, closure) ==
  [kind |-> kind, id |-> id, password |-> password, client |-> client, closure |-> closure]
ApiCall(kind, id) == Call(kind, id, "absent", "api", Array({}))
FreeSlots(cs) == {c \in Slots : cs[c] = NoCall}
Pending_(cs, kind) == {c \in Slots : cs[c].kind = kind}
\* the calls put in the lowest free slots, in order
RECURSIVE Issue(_, _)
Issue(cs, new) ==
  IF new = <<>> THEN cs
  ELSE LET c == CHOOSE f \in FreeSlots(cs) : \A g \in FreeSlots(cs) : f <= g
       IN Issue([cs EXCEPT ![c] = Head(new)], Tail(new))
NoCalls == [c \in Slots |-> NoCall]
NoDialog == [open |-> FALSE, selected |-> 0]

\* handleApiError(err) as the string a catch block hands to setError
ErrorString(e) == handleApiError(e).value

\* ---- mounting a page: its initial state and the fetches of its useEffect ----
SpinnerPages == {"users", "roles", "devices", "devices/[id]", "devices/[id]/payload"}
InitialLoading(p) == p \in SpinnerPages \cup {"companies"}
ListFetch == ApiCall("list", 0)
RefsFetch == ApiCall("refs", 0)
MountCalls(p, id) ==
  CASE p = "dashboard" -> <<ApiCall("stats", 0), ApiCall("stats", 0)>>
    [] p = "users" -> <<ListFetch, RefsFetch>>
    [] p = "roles" -> <<ListFetch>>
    [] p = "companies" -> <<ListFetch>>
    [] p = "devices" -> <<ListFetch, RefsFetch>>
    [] p = "devices/new" -> <<RefsFetch>>
    [] p = "devices/[id]" -> <<ApiCall("item", id), RefsFetch>>
    [] p = "devices/[id]/payload" -> <<Call("item", id, "absent", "axios", Array({}))>>
Mounted(p, id) ==
  /\ page' = p
  /\ loading' = InitialLoading(p)
  /\ rows' = Array({})
  /\ refs' = Array({})
  /\ pageError' = ""
  /\ fieldError' = ""
  /\ dialog' = [open |-> FALSE, selected |-> id]
  /\ calls' = Issue(NoCalls, MountCalls(p, id))
  /\ fetched' = {}
  /\ deleted' = {}
\* the router shows page p (with the id of its route, 0 when it has none)
Mount(p, id) ==
  /\ (p \in ItemPages) = (id # 0)
  /\ Mounted(p, id)
  /\ UNCHANGED besidePage

\* ---- what is on the screen ----
\* if (loading) return <CircularProgress />
Spinner == loading /\ page \in SpinnerPages
\* devices.filter(...) and companies.map(...) in the render of a page
RenderThrows ==
  /\ ~Spinner
  /\ \/ page = "devices" /\ ~rows.isArray
     \/ page \in FormPages /\ ~refs.isArray
Interactive == page \in Pages /\ ~Spinner /\ ~RenderThrows

\* ---- the user ----
\* "Add ..." button: the modal opens with an empty form
OpenCreate ==
  /\ page \in ModalPages
  /\ Interactive
  /\ ~dialog.open
  /\ dialog' = [open |-> TRUE, selected |-> 0]
  /\ UNCHANGED <<page, loading, rows, refs, pageError, fieldError, calls, fetched, deleted>>
  /\ UNCHANGED besidePage

\* handleEdit(user) / handleOpen(role): the modal opens on a row
OpenEdit(id) ==
  /\ page \in {"users", "roles"}
  /\ Interactive
  /\ ~dialog.open
  /\ id \in rows.ids
  /\ dialog' = [open |-> TRUE, selected |-> id]
  /\ UNCHANGED <<page, loading, rows, refs, pageError, fieldError, calls, fetched, deleted>>
  /\ UNCHANGED besidePage

\* handleCloseDialog / handleClose
CloseDialog ==
  /\ page \in ModalPages
  /\ Interactive
  /\ dialog.open
  /\ dialog' = NoDialog
  /\ fieldError' = ""
  /\ UNCHANGED <<page, loading, rows, refs, pageError, calls, fetched, deleted>>
  /\ UNCHANGED besidePage

\* what the password field can hold when the form is submitted
PasswordInputs == {"absent", "blank", "valid"}
\* userSchema: password: z.string().min(8).optional()
PasswordValid(pw) == pw # "blank"
\* variant: a create call goes out whatever the password
PasswordMissing_Never(pw) == FALSE
\* !data.password
PasswordMissing(pw) == pw \in {"absent", "blank"}
\* const updateData = { ...data }; if (!updateData.password) delete updateData.password
UpdatePassword(pw) == IF PasswordMissing(pw) THEN "absent" ELSE pw

\* the submit button of the users modal: handleSubmit(onSubmit)
SubmitUser(pw) ==
  /\ page = "users"
  /\ Interactive
  /\ dialog.open
  /\ IF ~PasswordValid(pw)
     THEN /\ fieldError' = PasswordTooShort
          /\ UNCHANGED <<pageError, calls>>
     ELSE IF dialog.selected # 0
     THEN /\ FreeSlots(calls) # {}
          /\ calls' = Issue(calls, <<Call("update", dialog.selected, UpdatePassword(pw),
                                          "api", Array({}))>>)
          /\ fieldError' = ""
          /\ UNCHANGED pageError
     ELSE IF PasswordMissing(pw)
     THEN /\ pageError' = PasswordRequired
          /\ fieldError' = ""
          /\ UNCHANGED calls
     ELSE /\ FreeSlots(calls) # {}
          /\ calls' = Issue(calls, <<Call("create", 0, pw, "api", Array({}))>>)
          /\ fieldError' = ""
          /\ UNCHANGED pageError
  /\ UNCHANGED <<page, loading, rows, refs, dialog, fetched, deleted>>
  /\ UNCHANGED besidePage

\* the submit button of the roles and companies modals
SubmitModal ==
  /\ page \in {"roles", "companies"}
  /\ Interactive
  /\ dialog.open
  /\ FreeSlots(calls) # {}
  /\ calls' = Issue(calls, <<IF dialog.selected # 0
                             THEN ApiCall("update", dialog.selected)
                             ELSE ApiCall("create", 0)>>)
  /\ UNCHANGED <<page, loading, rows, refs, pageError, fieldError, dialog, fetched, deleted>>
  /\ UNCHANGED besidePage

\* the submit button of the device forms: setLoading(true), then the call
SubmitDevice ==
  /\ page \in FormPages
  /\ Interactive
  /\ ~loading
  /\ FreeSlots(calls) # {}
  /\ loading' = TRUE
  /\ calls' = Issue(calls, <<IF page = "devices/[id]"
                             THEN ApiCall("update", dialog.selected)
                             ELSE ApiCall("create", 0)>>)
  /\ UNCHANGED <<page, rows, refs, pageError, fieldError, dialog, fetched, deleted>>
  /\ UNCHANGED besidePage

\* the submit button of the payload schema form: axios.patch
SubmitSchema ==
  /\ page = "devices/[id]/payload"
  /\ Interactive
  /\ FreeSlots(calls) # {}
  /\ calls' = Issue(calls, <<Call("patch", dialog.selected, "absent", "axios", Array({}))>>)
  /\ UNCHANGED <<page, loading, rows, refs, pageError, fieldError, dialog, fetched, deleted>>
  /\ UNCHANGED besidePage

\* variant: the call goes out whatever the answer
Confirmed_Always(answer) == TRUE
\* if (window.confirm(...)) / if (!confirm(...)) return
Confirmed(answer) == answer
\* the delete button of a row, and the user's answer to the confirmation
Delete(id, answer) ==
  /\ page \in {"users", "roles", "devices"}
  /\ Interactive
  /\ id \in rows.ids
  /\ IF Confirmed(answer)
     THEN /\ FreeSlots(calls) # {}
          /\ calls' = Issue(calls, <<Call("delete", id, "absent", "api",
                                       IF page = "devices" THEN rows ELSE Array({}))>>)
     ELSE UNCHANGED calls
  /\ UNCHANGED <<page, loading, rows, refs, pageError, fieldError, dialog, fetched, deleted>>
  /\ UNCHANGED besidePage

\* setInterval of the dashboard: both stats are fetched again
Poll ==
  /\ page = "dashboard"
  /\ FreeSlots(calls) = Slots
  /\ calls' = Issue(calls, MountCalls("dashboard", 0))
  /\ UNCHANGED <<page, loading, rows, refs, pageError, fieldError, dialog, fetched, deleted>>
  /\ UNCHANGED besidePage

\* ---- the server answers a call of the page ----
Freed(c) == [calls EXCEPT ![c] = NoCall]
\* the check of fetchUsers and fetchRoles on response.data
EnvelopeOnly == {"users", "roles"}
\* variant: a bare array passes the check as well
IsEnvelope_OrArray(body) == body.shape \in {"envelope", "array"}
\* !(!response.data.success || !Array.isArray(response.data.data))
IsEnvelope(body) == body.shape = "envelope"
\* Array.isArray(response.data)
IsBareArray(body) == body.shape = "array"

\* 2xx to the collection fetch: fetchUsers, fetchRoles, fetchCompanies, fetchDevices
ListSucceeds(c, body) ==
  /\ calls[c].kind = "list"
  /\ IF page \in EnvelopeOnly
     THEN IF IsEnvelope(body)
          THEN rows' = Array(body.ids) /\ pageError' = ""
          ELSE rows' = Array({}) /\ pageError' = ErrorString(InvalidFormatError)
     ELSE /\ rows' = Data(body)
          /\ pageError' = IF page = "devices" THEN "" ELSE pageError
  /\ loading' = FALSE
  /\ calls' = Freed(c)
  /\ fetched' = body.ids
  /\ deleted' = {}
  /\ UNCHANGED <<page, refs, fieldError, dialog>>
  /\ UNCHANGED besidePage

\* 2xx to the fetch of the companies reference list
RefsSucceeds(c, body) ==
  /\ calls[c].kind = "refs"
  /\ IF page = "users"
     THEN IF IsBareArray(body)
          THEN refs' = Array(body.ids) /\ UNCHANGED pageError
          ELSE pageError' = ErrorString(InvalidFormatError) /\ UNCHANGED refs
     ELSE refs' = Data(body) /\ UNCHANGED pageError
  /\ calls' = Freed(c)
  /\ UNCHANGED <<page, loading, rows, fieldError, dialog, fetched, deleted>>
  /\ UNCHANGED besidePage

\* variant: the collection is not fetched again
Refetch_None == <<>>
\* fetchUsers() / fetchRoles() / fetchCompanies() after a successful submit
Refetch == <<ListFetch>>
\* 2xx to a create or update call of a modal: close, reset, fetch again
ModalSubmitSucceeds(c) ==
  /\ page \in ModalPages
  /\ calls[c].kind \in {"create", "update"}
  /\ dialog' = IF page = "users" THEN [dialog EXCEPT !.open = FALSE] ELSE NoDialog
  /\ fieldError' = ""
  /\ loading' = IF page \in EnvelopeOnly /\ Refetch # <<>> THEN TRUE ELSE loading
  /\ calls' = Issue(Freed(c), Refetch)
  /\ UNCHANGED <<page, rows, refs, pageError, fetched, deleted>>
  /\ UNCHANGED besidePage

\* 2xx to the create or update call of a device form: router.push('/devices')
DeviceSubmitSucceeds(c) ==
  /\ page \in FormPages
  /\ calls[c].kind \in {"create", "update"}
  /\ Mounted("devices", 0)
  /\ UNCHANGED besidePage

\* 2xx to a DELETE call: users and roles fetch again, devices filters the list
\* its handler closed over
DeleteSucceeds(c) ==
  /\ calls[c].kind = "delete"
  /\ IF page = "devices"
     THEN /\ rows' = Array(calls[c].closure.ids \ {calls[c].id})
          /\ pageError' = ""
          /\ calls' = Freed(c)
          /\ UNCHANGED loading
     ELSE /\ loading' = TRUE
          /\ calls' = Issue(Freed(c), <<ListFetch>>)
          /\ UNCHANGED <<rows, pageError>>
  /\ deleted' = deleted \cup {calls[c].id}
  /\ UNCHANGED <<page, refs, fieldError, dialog, fetched>>
  /\ UNCHANGED besidePage

\* 2xx to the fetch of one device, to a stats fetch or to the schema patch
OtherSucceeds(c) ==
  /\ calls[c].kind \in {"item", "stats", "patch"}
  /\ loading' = IF calls[c].kind = "item" THEN FALSE ELSE loading
  /\ calls' = Freed(c)
  /\ UNCHANGED <<page, rows, refs, pageError, fieldError, dialog, fetched, deleted>>
  /\ UNCHANGED besidePage

\* what the catch block of the call site does with the error state
CatchError(p, kind, e) ==
  CASE p = "dashboard" -> pageError
    [] p = "companies" -> pageError
    [] p = "devices/[id]/payload" -> IF kind = "item" THEN FailedDevice ELSE FailedSchema
    [] kind = "refs" /\ p # "users" -> FailedCompanies
    [] kind = "item" -> FailedDevice
    [] OTHER -> ErrorString(e)

\* a call is rejected: the catch block (and finally) of its call site
CallFails(c, e) ==
  /\ calls[c] # NoCall
  /\ pageError' = CatchError(page, calls[c].kind, e)
  /\ rows' = IF calls[c].kind = "list" /\ page \in EnvelopeOnly THEN Array({}) ELSE rows
  /\ loading' = IF \/ calls[c].kind \in {"list", "item"}
                   \/ page \in FormPages /\ calls[c].kind \in {"create", "update"}
                THEN FALSE ELSE loading
  /\ calls' = Freed(c)
  /\ UNCHANGED <<page, refs, fieldError, dialog, fetched, deleted>>
  /\ UNCHANGED besidePage

\* setTimeout(() => setError(null), 3000) of the payload schema form
ErrorTimeout ==
  /\ page = "devices/[id]/payload"
  /\ pageError = FailedSchema
  /\ pageError' = ""
  /\ UNCHANGED <<page, loading, rows, refs, fieldError, dialog, calls, fetched, deleted>>
  /\ UNCHANGED besidePage

PagesIdle ==
  /\ page = "none"
  /\ loading = FALSE
  /\ rows = Array({})
  /\ refs = Array({})
  /\ pageError = ""
  /\ fieldError = ""
  /\ dialog = NoDialog
  /\ calls = NoCalls
  /\ fetched = {}
  /\ deleted = {}

\* ---- the edit forms: from the fetched entity to the payload of the update ----
FormKinds == {"user", "role", "device"}
\* A field's value, as far as the code looks at it: "ok" satisfies the form's
\* schema; "extra" satisfies it and carries keys the schema does not name; "bad"
\* is present, truthy and against the schema; "falsy" is '', 0, null or false;
\* "absent" is undefined. "default" is what a default() of the schema supplies.
Absent == "absent"
FieldValues == {"ok", "bad", "falsy", Absent}
\* the fields of an entity in a response, with both spellings where the code
\* reads both
ResponseFields(kind) ==
  CASE kind = "user" ->
         {"email", "first_name", "firstName", "last_name", "lastName", "role", "status",
          "company_id", "companyId"}
    [] kind = "role" -> {"name", "description", "permissions"}
    [] kind = "device" ->
         {"type", "company_id", "companyId", "status", "location", "physical_address",
          "physicalAddress", "payload_schema", "payloadSchema", "push_interval",
          "pushInterval", "enabled"}
\* the spelling the code reads second
Alternates ==
  {"firstName", "lastName", "companyId", "physicalAddress", "payloadSchema", "pushInterval"}
Usual(f) == IF f \in Alternates THEN Absent ELSE "ok"
ResponseValues(f) == IF f = "permissions" THEN FieldValues \cup {"extra"} ELSE FieldValues
\* the entities a response can carry: at most MaxOdd fields are not as usual
Entities(kind) ==
  UNION {{[f \in ResponseFields(kind) |-> IF f \in S THEN g[f] ELSE Usual(f)] :
            g \in {h \in [S -> FieldValues \cup {"extra"}] :
                     \A f \in S : h[f] \in ResponseValues(f)}} :
         S \in {T \in SUBSET ResponseFields(kind) : Cardinality(T) <= MaxOdd}}

Present(v) == v \notin {"falsy", Absent}
\* a || b
Coalesce(a, b) == IF Present(a) THEN a ELSE b
\* the row fetchUsers makes of a user, the role as fetchRoles stores it, the
\* formData fetchDevice makes of a device
Normalize(kind, data) ==
  CASE kind = "user" ->
         [email |-> data.email,
          firstName |-> Coalesce(data.first_name, data.firstName),
          lastName |-> Coalesce(data.last_name, data.lastName),
          role |-> data.role,
          status |-> data.status,
          companyId |-> Coalesce(data.company_id, data.companyId)]
    [] kind = "role" -> data
    [] kind = "device" ->
         [type |-> data.type,
          company_id |-> Coalesce(data.company_id, data.companyId),
          status |-> data.status,
          location |-> data.location,
          physical_address |-> Coalesce(data.physical_address, data.physicalAddress),
          payload_schema |-> Coalesce(data.payload_schema, data.payloadSchema),
          push_interval |-> Coalesce(data.push_interval, data.pushInterval),
          enabled |-> data.enabled]

\* the values the form holds before it is populated (defaultValues of useForm)
DefaultValues(kind) ==
  CASE kind = "user" ->
         [email |-> "falsy", firstName |-> "falsy", lastName |-> "falsy", role |-> "ok",
          status |-> "ok", companyId |-> "falsy", password |-> Absent]
    [] kind = "role" -> [name |-> Absent, description |-> Absent, permissions |-> "ok"]
    [] kind = "device" ->
         [type |-> Absent, company_id |-> Absent, status |-> "ok", location |-> Absent,
          physical_address |-> Absent, payload_schema |-> Absent, push_interval |-> Absent,
          enabled |-> "ok"]
\* setValue(...) six times / reset({...}) / reset(formData): the form populated
\* from the entity
Populate(kind, values, entity) ==
  IF kind = "user"
  THEN [f \in DOMAIN values |-> IF f \in DOMAIN entity THEN entity[f] ELSE values[f]]
  ELSE entity

\* fields whose schema has a default(), fields that are optional()
Defaulted(kind) ==
  IF kind = "device" THEN {"status", "payload_schema", "push_interval", "enabled"} ELSE {}
Optional(kind) == IF kind = "user" THEN {"password"} ELSE {}
\* the value passes the schema of the field
Satisfies(kind, f, v) ==
  \/ v = "ok"
  \/ v = "extra" /\ f = "permissions"
  \/ v = "falsy" /\ kind = "device" /\ f = "enabled"
  \/ v = Absent /\ f \in Defaulted(kind) \cup Optional(kind)
RejectedFields(kind, values) == {f \in DOMAIN values : ~Satisfies(kind, f, values[f])}
\* what the schema's parse returns for values that pass: defaults filled in,
\* keys it does not name stripped
Parsed(kind, values) ==
  [f \in DOMAIN values |->
     CASE values[f] = Absent /\ f \in Defaulted(kind) -> "default"
       [] values[f] = "extra" -> "ok"
       [] OTHER -> values[f]]
\* the body of the update call: for a user the password is deleted when falsy
UpdateData(kind, data) ==
  IF kind = "user" /\ ~Present(data.password) THEN [data EXCEPT !.password = Absent] ELSE data

\* the edit form is opened on the fetched entity (handleEdit, handleOpen(role),
\* fetchDevice)
EditEntity ==
  /\ formStep = "fetched"
  /\ formValues' = Populate(formKind, formValues, Normalize(formKind, fetchedEntity))
  /\ formStep' = "open"
  /\ UNCHANGED <<formKind, fetchedEntity, updateCalls>>
  /\ UNCHANGED besideForm

\* the form is submitted as it is: handleSubmit runs the resolver and, when
\* the values pass, onSubmit with what the schema parsed
SubmitUnchanged ==
  /\ formStep = "open"
  /\ IF RejectedFields(formKind, formValues) # {}
     THEN /\ formStep' = "blocked"
          /\ UNCHANGED updateCalls
     ELSE /\ formStep' = "sent"
          /\ updateCalls' =
               Append(updateCalls, UpdateData(formKind, Parsed(formKind, formValues)))
  /\ UNCHANGED <<formKind, fetchedEntity, formValues>>
  /\ UNCHANGED besideForm

FormIdle ==
  /\ formKind = "none"
  /\ fetchedEntity = <<>>
  /\ formValues = <<>>
  /\ formStep = "idle"
  /\ updateCalls = <<>>

\* ---- the dashboard: its effect, its polling timer and its two fetches ----
UsersPage == "/users"
StatsUrls == {"/companies/stats", "/devices/stats"}
Insts == 1..MaxMounts
TimerIds == 1..MaxTimers
StatsData == {1, 2}
NoTimers == [t \in TimerIds |-> 0]
NoFetches == [f \in StatsUrls \X Insts |-> 0]
NoStats == [u \in StatsUrls |-> 0]
ActiveTimers == {t \in TimerIds : timers[t] # 0}
\* the Dashboard i is the one on the screen
Live(i) == dashMounted /\ i = dashInst

\* variant: only the company stats are fetched
EffectFetches_CompaniesOnly == {"/companies/stats"}
\* fetchStats(); fetchDeviceData();
EffectFetches == StatsUrls
\* both fetch functions are called for Dashboard i
CallFetches(fs, i) ==
  [f \in StatsUrls \X Insts |->
     IF f[2] = i /\ f[1] \in EffectFetches THEN fs[f] + 1 ELSE fs[f]]
CanFetch(i) == \A u \in StatsUrls : fetches[<<u, i>>] < MaxPending

\* variant: the cleanup leaves the timer running
ClearInterval_Nothing(ts, id) == ts
\* return () => clearInterval(interval), for the timer the effect set, if any
ClearInterval(ts, id) == [t \in TimerIds |-> IF t = id THEN 0 ELSE ts[t]]

\* the body of useEffect for Dashboard i, run with the timers ts left by the
\* cleanup before it
RunEffect(i, ts) ==
  IF CookiesGet(cookies, "accessToken") = Undefined
  THEN /\ location' = LoginPage
       /\ timers' = ts
       /\ interval' = 0
       /\ UNCHANGED <<nextTimer, fetches>>
  ELSE /\ fetches' = CallFetches(fetches, i)
       /\ nextTimer' = nextTimer + 1
       /\ timers' = [ts EXCEPT ![nextTimer + 1] = i]
       /\ interval' = nextTimer + 1
       /\ location' = DashboardPage

\* the user comes to /dashboard: the component mounts and its effect runs
MountDashboard ==
  /\ ~dashMounted
  /\ dashInst < MaxMounts
  /\ nextTimer < MaxTimers
  /\ dashMounted' = TRUE
  /\ dashInst' = dashInst + 1
  /\ stats' = NoStats
  /\ RunEffect(dashInst + 1, timers)
  /\ UNCHANGED <<cookies, defaultAuth, reloading, pc, stack, outcome, hist>>
  /\ UNCHANGED besideDash

\* the router object changes while the component stays ([router] is the
\* dependency of the effect): the cleanup runs, then the effect again
EffectRerun ==
  /\ dashMounted
  /\ location = DashboardPage
  /\ nextTimer < MaxTimers
  /\ CanFetch(dashInst)
  /\ RunEffect(dashInst, ClearInterval(timers, interval))
  /\ UNCHANGED <<dashMounted, dashInst, stats>>
  /\ UNCHANGED <<cookies, defaultAuth, reloading, pc, stack, outcome, hist>>
  /\ UNCHANGED besideDash

\* an interval timer fires: the callback calls both fetch functions of the
\* Dashboard that set it
Tick(t) ==
  /\ timers[t] # 0
  /\ CanFetch(timers[t])
  /\ fetches' = CallFetches(fetches, timers[t])
  /\ UNCHANGED <<dashMounted, dashInst, timers, nextTimer, interval, stats>>
  /\ UNCHANGED clientVars
  /\ UNCHANGED besideDash

\* the component is torn down (the user goes elsewhere, or a router.replace
\* took effect): the cleanup of the effect runs
UnmountDashboard ==
  /\ dashMounted
  /\ dashMounted' = FALSE
  /\ timers' = ClearInterval(timers, interval)
  /\ interval' = 0
  /\ location' = IF location = DashboardPage THEN UsersPage ELSE location
  /\ UNCHANGED <<dashInst, nextTimer, fetches, stats>>
  /\ UNCHANGED <<cookies, defaultAuth, reloading, pc, stack, outcome, hist>>
  /\ UNCHANGED besideDash

\* a fetch of Dashboard i is answered 2xx: setStats / setDeviceData, which
\* React drops when the component is gone
FetchResolves(u, i, data) ==
  /\ fetches[<<u, i>>] > 0
  /\ fetches' = [fetches EXCEPT ![<<u, i>>] = @ - 1]
  /\ stats' = IF Live(i) THEN [stats EXCEPT ![u] = data] ELSE stats
  /\ UNCHANGED <<dashMounted, dashInst, timers, nextTimer, interval>>
  /\ UNCHANGED clientVars
  /\ UNCHANGED besideDash

\* a fetch of Dashboard i is rejected: console.error, and on 401
\* router.replace('/login')
FetchRejected(u, i, status) ==
  /\ fetches[<<u, i>>] > 0
  /\ fetches' = [fetches EXCEPT ![<<u, i>>] = @ - 1]
  /\ location' = IF status = 401 THEN LoginPage ELSE location
  /\ UNCHANGED <<dashMounted, dashInst, timers, nextTimer, interval, stats>>
  /\ UNCHANGED <<cookies, defaultAuth, reloading, pc, stack, outcome, hist>>
  /\ UNCHANGED besideDash

DashIdle ==
  /\ dashMounted = FALSE
  /\ dashInst = 0
  /\ timers = NoTimers
  /\ nextTimer = 0
  /\ interval = 0
  /\ fetches = NoFetches
  /\ stats = NoStats

\* ---- the devices table: search, pages of list, deletes ----
DeviceIds == 1..MaxDevices
\* the text of a device's type field (location and address are left empty)
DeviceType(d) == IF d % 2 = 1 THEN "sensor" ELSE "Gateway"
SearchTerms == {"", "sen", "GATE", "x"}
\* toLowerCase()
ToLowerCase(text) ==
  CASE text = "Gateway" -> "gateway"
    [] text = "GATE" -> "gate"
    [] OTHER -> text
\* lower.includes(term), for the texts and terms at hand
TextIncludes(lower, term) ==
  \/ term = ""
  \/ lower = "sensor" /\ term = "sen"
  \/ lower = "gateway" /\ term = "gate"
RowsPerPageOptions == {5, 10, 25, 50}
Min(a, b) == IF a <= b THEN a ELSE b
\* array.slice(from, to)
Slice(list, from, to) ==
  IF from >= Min(to, Len(list)) THEN <<>> ELSE SubSeq(list, from + 1, Min(to, Len(list)))
Range(list) == {list[i] : i \in 1..Len(list)}
AscendingIds(n) == [i \in 1..n |-> i]

\* devices.filter(device => ...includes(searchTerm.toLowerCase()) || ...)
Matches(d, term) == TextIncludes(ToLowerCase(DeviceType(d)), ToLowerCase(term))
FilteredDevices(list, term) ==
  LET Keep(d) == Matches(d, term) IN SelectSeq(list, Keep)
filteredDevices == FilteredDevices(deviceRows, searchTerm)
\* filteredDevices.slice(page * rowsPerPage, page * rowsPerPage + rowsPerPage)
PaginatedDevices(list, p, n) == Slice(list, p * n, p * n + n)
paginatedDevices == PaginatedDevices(filteredDevices, tablePage, rowsPerPage)
\* the last page index the pager offers for count list
LastPage(count, n) == IF count = 0 THEN 0 ELSE (count - 1) \div n

\* setPage(0)
ResetPage(p) == 0

\* the search box is edited: setSearchTerm(e.target.value)
ChangeSearchTerm(term) ==
  /\ deviceRows # <<>>
  /\ term # searchTerm
  /\ searchTerm' = term
  /\ UNCHANGED <<deviceRows, tablePage, rowsPerPage>>
  /\ UNCHANGED besideTable

\* an arrow of the pager: handleChangePage(event, newPage); the pager offers the
\* page before and, below the last page, the page after
handleChangePage(newPage) ==
  /\ deviceRows # <<>>
  /\ \/ newPage = tablePage - 1 /\ tablePage > 0
     \/ newPage = tablePage + 1 /\ tablePage < LastPage(Len(filteredDevices), rowsPerPage)
  /\ tablePage' = newPage
  /\ UNCHANGED <<deviceRows, searchTerm, rowsPerPage>>
  /\ UNCHANGED besideTable

\* the list-per-page select: setRowsPerPage(n); setPage(0)
handleChangeRowsPerPage(n) ==
  /\ deviceRows # <<>>
  /\ n # rowsPerPage
  /\ rowsPerPage' = n
  /\ tablePage' = ResetPage(tablePage)
  /\ UNCHANGED <<deviceRows, searchTerm>>
  /\ UNCHANGED besideTable

\* the delete of a row on the screen was confirmed and its call succeeded:
\* setDevices(devices.filter(device => device.id !== id))
DeleteShownDevice(id) ==
  /\ id \in Range(paginatedDevices)
  /\ deviceRows' = LET Keep(d) == d # id IN SelectSeq(deviceRows, Keep)
  /\ UNCHANGED <<searchTerm, tablePage, rowsPerPage>>
  /\ UNCHANGED besideTable

TableIdle ==
  /\ deviceRows = <<>>
  /\ searchTerm = ""
  /\ tablePage = 0
  /\ rowsPerPage = 10

\* ---- the users page: its calls, the server, the answers ----
UserIds == 1..MaxIds
CallSites == {"fetchUsers", "fetchCompanies", "handleDelete", "onSubmit"}
NoError == [site |-> "none", status |-> 0]
ServerErrors == {500}
\* a call as sent; answer: 0 until the server answered, then its status
Sent(site, id) == [site |-> site, id |-> id, answer |-> 0, data |-> {}]
\* the server's answer to a call: a status and, for GET /users, the collection
\* as it stood when the call was served
Answered(c, status, data) == [c EXCEPT !.answer = status, !.data = data]
RemoveAt(cs, i) == [j \in 1..(Len(cs) - 1) |-> IF j < i THEN cs[j] ELSE cs[j + 1]]
\* the id the server gives a created user
FreshId(coll) == CHOOSE id \in UserIds \ coll : \A o \in UserIds \ coll : id <= o

\* fetchUsers, on success: setError(null)
ClearedError(e) == NoError

\* fetchUsers(), up to its await: setLoading(true); api.get('/users')
StartFetchUsers(cs) == Append(cs, Sent("fetchUsers", 0))

\* the server serves a call that reached it; calls are served in any order
ServeCall(i, status) ==
  /\ i \in 1..Len(userCalls)
  /\ userCalls[i].answer = 0
  /\ LET c == userCalls[i]
         ok == status = 200
     IN /\ \/ ok
           \/ status \in ServerErrors
           \/ status = 404 /\ c.site = "handleDelete" /\ c.id \notin srvUsers
        /\ ok /\ c.site = "handleDelete" => c.id \in srvUsers
        /\ ok /\ c.site = "onSubmit" => srvUsers # UserIds
        /\ srvUsers' = IF ~ok THEN srvUsers
                       ELSE IF c.site = "handleDelete" THEN srvUsers \ {c.id}
                       ELSE IF c.site = "onSubmit" THEN srvUsers \cup {FreshId(srvUsers)}
                       ELSE srvUsers
        /\ userCalls' = [userCalls EXCEPT ![i] =
             Answered(c, status, IF ok /\ c.site = "fetchUsers" THEN srvUsers ELSE {})]
  /\ UNCHANGED <<users, usersLoading, usersError, companies>>
  /\ UNCHANGED besideUsers

\* the answer to a GET /users arrives: the rest of fetchUsers
UsersFetched(i) ==
  /\ i \in 1..Len(userCalls)
  /\ userCalls[i].site = "fetchUsers"
  /\ userCalls[i].answer # 0
  /\ LET c == userCalls[i]
     IN IF c.answer = 200
        THEN /\ users' = c.data
             /\ usersError' = ClearedError(usersError)
        ELSE /\ users' = {}
             /\ usersError' = [site |-> "fetchUsers", status |-> c.answer]
  /\ usersLoading' = FALSE
  /\ userCalls' = RemoveAt(userCalls, i)
  /\ UNCHANGED <<srvUsers, companies>>
  /\ UNCHANGED besideUsers

\* the answer to GET /companies arrives: the rest of fetchCompanies
CompaniesFetched(i) ==
  /\ i \in 1..Len(userCalls)
  /\ userCalls[i].site = "fetchCompanies"
  /\ userCalls[i].answer # 0
  /\ LET c == userCalls[i]
     IN IF c.answer = 200
        THEN /\ companies' = TRUE
             /\ usersError' = usersError
        ELSE /\ companies' = companies
             /\ usersError' = [site |-> "fetchCompanies", status |-> c.answer]
  /\ userCalls' = RemoveAt(userCalls, i)
  /\ UNCHANGED <<srvUsers, users, usersLoading>>
  /\ UNCHANGED besideUsers

\* handleDelete(id), confirmed, up to its await: api.delete(`/users/${id}`);
\* the row's button is on the screen while the spinner is not
StartDelete(id) ==
  /\ ~usersLoading
  /\ id \in users
  /\ Len(userCalls) < MaxUserCalls
  /\ userCalls' = Append(userCalls, Sent("handleDelete", id))
  /\ UNCHANGED <<srvUsers, users, usersLoading, usersError, companies>>
  /\ UNCHANGED besideUsers

\* onSubmit(data) for a new user with a password, up to its await: api.post
StartSubmit ==
  /\ ~usersLoading
  /\ Len(userCalls) < MaxUserCalls
  /\ userCalls' = Append(userCalls, Sent("onSubmit", 0))
  /\ UNCHANGED <<srvUsers, users, usersLoading, usersError, companies>>
  /\ UNCHANGED besideUsers

\* the answer to a DELETE, POST or PUT arrives: the rest of handleDelete and of
\* onSubmit; on success fetchUsers() is called, else setError(handleApiError(err))
MutationAnswered(i) ==
  /\ i \in 1..Len(userCalls)
  /\ userCalls[i].site \in {"handleDelete", "onSubmit"}
  /\ userCalls[i].answer # 0
  /\ LET c == userCalls[i]
     IN IF c.answer = 200
        THEN /\ usersLoading' = TRUE
             /\ userCalls' = StartFetchUsers(RemoveAt(userCalls, i))
             /\ usersError' = usersError
        ELSE /\ usersLoading' = usersLoading
             /\ userCalls' = RemoveAt(userCalls, i)
             /\ usersError' = [site |-> c.site, status |-> c.answer]
  /\ UNCHANGED <<srvUsers, users, companies>>
  /\ UNCHANGED besideUsers

UsersIdle ==
  /\ srvUsers = {}
  /\ users = {}
  /\ usersLoading = TRUE
  /\ usersError = NoError
  /\ companies = FALSE
  /\ userCalls = <<>>

\* ---- the route guard (middleware and its matcher) ----
\* a pathname is a sequence of pieces of text, the first one being "/"
PathTokens ==
  {"/", ".", "login", "api", "_next", "static", "image", "favicon", "ico",
   "public", "publications", "users"}
SingleChars == {"/", "."}
RootPath == <<"/">>
LoginPath == <<"/", "login">>
Paths == {p \in UNION {[1..n -> PathTokens] : n \in 1..MaxPathLen} : p[1] = "/"}

\* String.prototype.startsWith on one piece of text
TextStartsWith(text, prefix) ==
  text = prefix \/ (text = "publications" /\ prefix = "public")
\* String.prototype.startsWith on a pathname
StartsWith(path, prefix) ==
  /\ Len(prefix) <= Len(path)
  /\ \A i \in 1..(Len(prefix) - 1) : path[i] = prefix[i]
  /\ TextStartsWith(path[Len(prefix)], prefix[Len(prefix)])
\* String.prototype.includes
Includes(path, text) == \E i \in 1..Len(path) : path[i] = text

\* the cookies a navigation can carry under the name accessToken
AbsentCookie == [present |-> FALSE, value |-> ""]
RequestCookies ==
  {AbsentCookie} \cup {[present |-> TRUE, value |-> v] : v \in {"", "valid", "expired"}}
\* request.cookies.get('accessToken')?.value
CookieValue(cookie) == IF cookie.present THEN Property(cookie.value) ELSE NoProperty

\* variant: only an absent cookie counts as missing
TokenMissing_AbsentOnly(token) == ~token.defined
\* !token
TokenMissing(token) == ~Truthy(token)

\* config.matcher: '/((?!_next/static|_next/image|favicon.ico|public).*)'
\* (the dot of favicon.ico is a regular-expression dot)
MatcherMatches(path) ==
  /\ path[1] = "/"
  /\ ~StartsWith(path, <<"/", "_next", "/", "static">>)
  /\ ~StartsWith(path, <<"/", "_next", "/", "image">>)
  /\ ~(/\ Len(path) >= 4
       /\ path[2] = "favicon"
       /\ path[3] \in SingleChars
       /\ TextStartsWith(path[4], "ico"))
  /\ ~StartsWith(path, <<"/", "public">>)

middleware(path, cookie) ==
  IF path = LoginPath \/ StartsWith(path, <<"/", "api", "/">>) THEN "next"
  ELSE IF StartsWith(path, <<"/", "_next">>) \/ Includes(path, ".") THEN "next"
  ELSE IF TokenMissing(CookieValue(cookie)) THEN "redirect"
  ELSE "next"

\* the framework runs the middleware for the paths its matcher matches
RouteGuard(path, cookie) ==
  IF MatcherMatches(path) THEN middleware(path, cookie) ELSE "next"

GuardIdle ==
  /\ navPath = RootPath
  /\ navCookie = AbsentCookie
  /\ navDecision = "none"

\* the browser navigates to a path, sending the cookie it holds
Navigate(path, cookie) ==
  /\ navPath' = path
  /\ navCookie' = cookie
  /\ navDecision' = RouteGuard(path, cookie)
  /\ UNCHANGED besideGuard

Init ==
  /\ cookies \in {EmptyJar, StoreTokens(EmptyJar, 1, 1)}
  /\ defaultAuth = Undefined
  /\ location = IF CookiesGet(cookies, "accessToken") = Undefined
                THEN LoginPage ELSE DashboardPage
  /\ reloading = FALSE
  /\ pc = [r \in Req |-> "idle"]
  /\ stack = [r \in Req |-> <<>>]
  /\ outcome = [r \in Req |-> Pending]
  /\ hist = [r \in Req |-> NoHist]
  /\ errIn = NoValue
  /\ errOut = NotCalled
  /\ prevIn = NoValue
  /\ prevOut = NotCalled
  /\ GuardIdle
  /\ PagesIdle
  /\ FormIdle
  /\ DashIdle
  /\ TableIdle
  /\ UsersIdle

Next ==
  \/ \E r \in Req : SendLogin(r)
  \/ \E r \in Req : SendResource(r)
  \/ \E r \in Req : RespondSuccess(r)
  \/ \E r \in Req : LoginSuccess(r)
  \/ \E r \in Req : RefreshSuccess(r)
  \/ \E r \in Req, status \in FailureStatuses : UnauthorizedRefresh(r, status)
  \/ \E r \in Req, status \in FailureStatuses : UnauthorizedNoRefreshToken(r, status)
  \/ \E r \in Req, status \in FailureStatuses, body \in ServerBodies :
       PropagateFailure(r, status, body)
  \/ \E r \in Req, status \in FailureStatuses, body \in ServerBodies :
       RefreshFailure(r, status, body)
  \/ \E name \in CookieNames : ExpireCookie(name)
  \/ LoadLoginPage

Spec == Init /\ [][Next]_vars

\* ---- the client under pages that also navigate to /login on their own ----
NextRace ==
  \/ Next
  \/ \E r \in Req, body \in ServerBodies : DashboardFetchRejected(r, body)

SpecRace == Init /\ [][NextRace]_vars

\* ---- handleApiError applied to every kind of value ----
InitErr ==
  /\ cookies = EmptyJar
  /\ defaultAuth = Undefined
  /\ location = LoginPage
  /\ reloading = FALSE
  /\ pc = [r \in Req |-> "idle"]
  /\ stack = [r \in Req |-> <<>>]
  /\ outcome = [r \in Req |-> Pending]
  /\ hist = [r \in Req |-> NoHist]
  /\ errIn = NoValue
  /\ errOut = NotCalled
  /\ prevIn = NoValue
  /\ prevOut = NotCalled
  /\ GuardIdle
  /\ PagesIdle
  /\ FormIdle
  /\ DashIdle
  /\ TableIdle
  /\ UsersIdle

NextErr == \E v \in ErrorValues : CallHandleApiError(v)

SpecErr == InitErr /\ [][NextErr]_vars

\* ---- the route guard applied to every navigation ----
InitGuard ==
  /\ cookies = EmptyJar
  /\ defaultAuth = Undefined
  /\ location = LoginPage
  /\ reloading = FALSE
  /\ pc = [r \in Req |-> "idle"]
  /\ stack = [r \in Req |-> <<>>]
  /\ outcome = [r \in Req |-> Pending]
  /\ hist = [r \in Req |-> NoHist]
  /\ errIn = NoValue
  /\ errOut = NotCalled
  /\ prevIn = NoValue
  /\ prevOut = NotCalled
  /\ navPath \in Paths
  /\ navCookie \in RequestCookies
  /\ navDecision = "none"
  /\ PagesIdle
  /\ FormIdle
  /\ DashIdle
  /\ TableIdle
  /\ UsersIdle

\* the navigation that was typed is made
NextGuard == navDecision = "none" /\ Navigate(navPath, navCookie)

SpecGuard == InitGuard /\ [][NextGuard]_vars

\* ---- the resource pages, the user and the server ----
InitPages ==
  /\ cookies = StoreTokens(EmptyJar, 1, 1)
  /\ defaultAuth = Undefined
  /\ location = DashboardPage
  /\ reloading = FALSE
  /\ pc = [r \in Req |-> "idle"]
  /\ stack = [r \in Req |-> <<>>]
  /\ outcome = [r \in Req |-> Pending]
  /\ hist = [r \in Req |-> NoHist]
  /\ errIn = NoValue
  /\ errOut = NotCalled
  /\ prevIn = NoValue
  /\ prevOut = NotCalled
  /\ GuardIdle
  /\ PagesIdle
  /\ FormIdle
  /\ DashIdle
  /\ TableIdle
  /\ UsersIdle

NextPages ==
  \/ \E p \in Pages, id \in Ids \cup {0} : Mount(p, id)
  \/ OpenCreate
  \/ \E id \in Ids : OpenEdit(id)
  \/ CloseDialog
  \/ \E pw \in PasswordInputs : SubmitUser(pw)
  \/ SubmitModal
  \/ SubmitDevice
  \/ SubmitSchema
  \/ \E id \in Ids, answer \in BOOLEAN : Delete(id, answer)
  \/ Poll
  \/ \E c \in Slots, body \in ListBodies : ListSucceeds(c, body)
  \/ \E c \in Slots, body \in ListBodies : RefsSucceeds(c, body)
  \/ \E c \in Slots : ModalSubmitSucceeds(c)
  \/ \E c \in Slots : DeviceSubmitSucceeds(c)
  \/ \E c \in Slots : DeleteSucceeds(c)
  \/ \E c \in Slots : OtherSucceeds(c)
  \/ \E c \in Slots, e \in CallErrors : CallFails(c, e)
  \/ ErrorTimeout

SpecPages == InitPages /\ [][NextPages]_vars

\* ---- an edit form, its entity and the user who submits it unchanged ----
InitForm ==
  /\ cookies = StoreTokens(EmptyJar, 1, 1)
  /\ defaultAuth = Undefined
  /\ location = DashboardPage
  /\ reloading = FALSE
  /\ pc = [r \in Req |-> "idle"]
  /\ stack = [r \in Req |-> <<>>]
  /\ outcome = [r \in Req |-> Pending]
  /\ hist = [r \in Req |-> NoHist]
  /\ errIn = NoValue
  /\ errOut = NotCalled
  /\ prevIn = NoValue
  /\ prevOut = NotCalled
  /\ GuardIdle
  /\ PagesIdle
  /\ formKind \in FormKinds
  /\ fetchedEntity \in Entities(formKind)
  /\ formValues = DefaultValues(formKind)
  /\ formStep = "fetched"
  /\ updateCalls = <<>>
  /\ DashIdle
  /\ TableIdle
  /\ UsersIdle

NextForm ==
  \/ EditEntity
  \/ SubmitUnchanged

SpecForm == InitForm /\ [][NextForm]_vars

\* ---- the dashboard, the user, the timers and the server ----
InitDash ==
  /\ cookies \in {EmptyJar, StoreTokens(EmptyJar, 1, 1)}
  /\ defaultAuth = Undefined
  /\ location = UsersPage
  /\ reloading = FALSE
  /\ pc = [r \in Req |-> "idle"]
  /\ stack = [r \in Req |-> <<>>]
  /\ outcome = [r \in Req |-> Pending]
  /\ hist = [r \in Req |-> NoHist]
  /\ errIn = NoValue
  /\ errOut = NotCalled
  /\ prevIn = NoValue
  /\ prevOut = NotCalled
  /\ GuardIdle
  /\ PagesIdle
  /\ FormIdle
  /\ DashIdle
  /\ TableIdle
  /\ UsersIdle

NextDash ==
  \/ MountDashboard
  \/ EffectRerun
  \/ \E t \in TimerIds : Tick(t)
  \/ UnmountDashboard
  \/ \E u \in StatsUrls, i \in Insts, data \in StatsData : FetchResolves(u, i, data)
  \/ \E u \in StatsUrls, i \in Insts, status \in {401, 500} : FetchRejected(u, i, status)
  \/ \E name \in CookieNames : ExpireCookie(name)

SpecDash == InitDash /\ [][NextDash]_vars

\* ---- the devices table once the list was fetched, and the user ----
InitTable ==
  /\ cookies = StoreTokens(EmptyJar, 1, 1)
  /\ defaultAuth = Undefined
  /\ location = DashboardPage
  /\ reloading = FALSE
  /\ pc = [r \in Req |-> "idle"]
  /\ stack = [r \in Req |-> <<>>]
  /\ outcome = [r \in Req |-> Pending]
  /\ hist = [r \in Req |-> NoHist]
  /\ errIn = NoValue
  /\ errOut = NotCalled
  /\ prevIn = NoValue
  /\ prevOut = NotCalled
  /\ GuardIdle
  /\ PagesIdle
  /\ FormIdle
  /\ DashIdle
  /\ deviceRows \in {AscendingIds(n) : n \in 1..MaxDevices}
  /\ searchTerm = ""
  /\ tablePage = 0
  /\ rowsPerPage = 10
  /\ UsersIdle

NextTable ==
  \/ \E term \in SearchTerms : ChangeSearchTerm(term)
  \/ \E newPage \in 0..MaxDevices : handleChangePage(newPage)
  \/ \E n \in RowsPerPageOptions : handleChangeRowsPerPage(n)
  \/ \E id \in DeviceIds : DeleteShownDevice(id)

SpecTable == InitTable /\ [][NextTable]_vars

\* ---- the users page, mounted (fetchUsers(); fetchCompanies()), its user and
\* the server ----
InitUsers ==
  /\ cookies = StoreTokens(EmptyJar, 1, 1)
  /\ defaultAuth = Undefined
  /\ location = UsersPage
  /\ reloading = FALSE
  /\ pc = [r \in Req |-> "idle"]
  /\ stack = [r \in Req |-> <<>>]
  /\ outcome = [r \in Req |-> Pending]
  /\ hist = [r \in Req |-> NoHist]
  /\ errIn = NoValue
  /\ errOut = NotCalled
  /\ prevIn = NoValue
  /\ prevOut = NotCalled
  /\ GuardIdle
  /\ PagesIdle
  /\ FormIdle
  /\ DashIdle
  /\ TableIdle
  /\ srvUsers \in SUBSET UserIds
  /\ users = {}
  /\ usersLoading = TRUE
  /\ usersError = NoError
  /\ companies = FALSE
  /\ userCalls = Append(StartFetchUsers(<<>>), Sent("fetchCompanies", 0))

NextUsers ==
  \/ \E i \in 1..MaxUserCalls, status \in {200, 404} \cup ServerErrors : ServeCall(i, status)
  \/ \E i \in 1..MaxUserCalls : UsersFetched(i)
  \/ \E i \in 1..MaxUserCalls : CompaniesFetched(i)
  \/ \E id \in UserIds : StartDelete(id)
  \/ StartSubmit
  \/ \E i \in 1..MaxUserCalls : MutationAnswered(i)

SpecUsers == InitUsers /\ [][NextUsers]_vars

\* ---- what a step did, read off the two states ----
\* the server answered the request on the wire of r with a failure status
AnsweredWith(r, status) ==
  \/ UnauthorizedRefresh(r, status)
  \/ UnauthorizedNoRefreshToken(r, status)
  \/ \E body \in ServerBodies : PropagateFailure(r, status, body)
  \/ \E body \in ServerBodies : RefreshFailure(r, status, body)
Phases(r) == hist[r].phases
PathSuccess == <<"INITIAL", "DONE">>
PathNoRefreshToken == <<"INITIAL", "UNAUTHORIZED", "DONE">>
PathRetried == <<"INITIAL", "UNAUTHORIZED", "REFRESHING", "RETRIED", "DONE">>
PathRedirect == <<"INITIAL", "UNAUTHORIZED", "REFRESHING", "REDIRECT", "DONE">>
FourPaths == {PathSuccess, PathNoRefreshToken, PathRetried, PathRedirect}
IsPrefix(s, t) == Len(s) <= Len(t) /\ SubSeq(t, 1, Len(s)) = s
\* the first refresh call made for r was accepted and r was resubmitted
RefreshAccepted(r) == Len(Phases(r)) >= 4 /\ SubSeq(Phases(r), 1, 4) = SubSeq(PathRetried, 1, 4)

\* C1: a request answered 401 while a refresh token is stored, whose refresh call
\* is accepted, causes exactly one call to /auth/refresh and exactly one
\* resubmission, whatever the resubmission is answered with.
C1_OneRefreshOneRetry ==
  \A r \in Req : RefreshAccepted(r) => hist[r].refreshCalls = 1 /\ hist[r].retries = 1

C1_Witness ==
  \E r \in Req :
    /\ pc[r] = "done"
    /\ Phases(r) = PathRetried
    /\ outcome[r].kind = "rejected"
    /\ outcome[r].error.status = 401
    /\ hist[r].refreshCalls = 1
    /\ hist[r].retries = 1

\* C2 (as claimed): when the refresh call made for a request fails for any reason,
\* 401 included, both tokens are cleared, the application is redirected to /login,
\* the caller's promise is rejected, and no further refresh call and no retry is
\* issued for that request.
C2_RefreshFailureEndsRequest ==
  [][\A r \in Req : \A status \in FailureStatuses :
       (Len(stack[r]) > 1 /\ ~Top(stack[r]).retry /\ AnsweredWith(r, status))
         => /\ cookies' = EmptyJar
            /\ reloading'
            /\ pc'[r] = "done"
            /\ outcome'[r].kind = "rejected"
            /\ hist'[r].refreshCalls = hist[r].refreshCalls
            /\ hist'[r].retries = hist[r].retries]_vars

\* C3: a request already marked as retried that is answered 401 is rejected to its
\* caller with that 401, with no refresh call, no resubmission, no change of the
\* stored tokens and no redirect; a retried request never enters the 401 branch.
C3_RetriedIsPropagated ==
  [][\A r \in Req :
       (pc[r] = "flight" /\ Len(stack[r]) = 1 /\ Top(stack[r]).retry /\ AnsweredWith(r, 401))
         => /\ pc'[r] = "done"
            /\ outcome'[r].kind = "rejected"
            /\ outcome'[r].error.status = 401
            /\ outcome'[r].error.url = Top(stack[r]).url
            /\ hist'[r].refreshCalls = hist[r].refreshCalls
            /\ hist'[r].retries = hist[r].retries
            /\ cookies' = cookies
            /\ reloading' = reloading]_vars

C3_Witness ==
  \E r \in Req :
    /\ pc[r] = "done"
    /\ Phases(r) = PathRetried
    /\ outcome[r] = Rejected(AxiosError(ResourceUrl, 401, CHOOSE b \in ServerBodies : TRUE))
    /\ ~hist[r].redirected
    /\ CookiesGet(cookies, "accessToken") # Undefined
    /\ CookiesGet(cookies, "refreshToken") # Undefined

C5_FourPathsOnly ==
  \A r \in Req : \E path \in FourPaths : IsPrefix(Phases(r), path)

\* C6: in the step that resubmits the original request after a successful refresh,
\* the newly issued access token is stored with a 1-day expiry and the newly issued
\* refresh token with a 7-day expiry, and the resubmitted request carries the newly
\* issued access token, which is not the token the server rejected.
C6_NewTokensStoredAndSent ==
  [][\A r \in Req :
       (pc[r] = "flight" /\ hist'[r].retries = hist[r].retries + 1)
         => /\ cookies'["accessToken"] = [value |-> IssuedToken, expires |-> AccessExpiryDays]
            /\ cookies'["refreshToken"] = [value |-> IssuedToken, expires |-> RefreshExpiryDays]
            /\ Len(stack'[r]) = 1
            /\ Top(stack'[r]).url = stack[r][1].url
            /\ Top(stack'[r]).auth = IssuedToken
            /\ Top(stack'[r]).auth # stack[r][1].auth]_vars

C6_Witness ==
  \E r \in Req :
    /\ pc[r] = "flight"
    /\ Phases(r) = SubSeq(PathRetried, 1, 4)
    /\ Len(stack[r]) = 1
    /\ Top(stack[r]).retry
    /\ cookies["accessToken"] = [value |-> Top(stack[r]).auth, expires |-> AccessExpiryDays]
    /\ cookies["refreshToken"] = [value |-> Top(stack[r]).auth, expires |-> RefreshExpiryDays]

\* C7 (as claimed): every request put on the wire carries the access token stored
\* at that moment as its bearer credential, and no bearer credential at all when
\* no access token is stored at that moment.
C7_BearerIsStoredToken ==
  [][\A r \in Req :
       (pc'[r] = "flight" /\ stack'[r] # stack[r])
         => Top(stack'[r]).auth = CookiesGet(cookies', "accessToken")]_vars

\* C8: a page's request that fails with a status other than 401, or with no
\* response, is rejected to its caller with that very error; no refresh call and no
\* resubmission is issued, the stored tokens are unchanged and nothing redirects.
\* A request goes on the wire a second time only out of the 401 branch.
C8_OtherFailuresPropagate ==
  [][\A r \in Req :
       /\ \A status \in FailureStatuses \ {401} :
            (pc[r] = "flight" /\ Len(stack[r]) = 1 /\ AnsweredWith(r, status))
              => /\ pc'[r] = "done"
                 /\ outcome'[r] \in {Rejected(AxiosError(Top(stack[r]).url, status, body)) :
                                       body \in ServerBodies}
                 /\ hist'[r].refreshCalls = hist[r].refreshCalls
                 /\ hist'[r].retries = hist[r].retries
                 /\ cookies' = cookies
                 /\ reloading' = reloading
                 /\ location' = location
       /\ (pc[r] = "flight" /\ pc'[r] = "flight" /\ stack'[r] # stack[r] /\ Len(stack'[r]) = 1)
            => Len(stack[r]) = 2 /\ stack[r][1].retry]_vars

C8_Witness ==
  \E r \in Req :
    /\ pc[r] = "done"
    /\ Phases(r) = PathSuccess
    /\ outcome[r].kind = "rejected"
    /\ outcome[r].error.status = 500
    /\ CookiesGet(cookies, "accessToken") # Undefined
    /\ CookiesGet(cookies, "refreshToken") # Undefined
    /\ ~reloading

\* C9 (as claimed): whenever the authorization failure of a request cannot be
\* recovered, because the refresh call failed or because the request resubmitted
\* after a successful refresh was answered 401 again, the client has forced a hard
\* redirect to the login page.
C9_UnrecoverableRedirects ==
  \A r \in Req :
    (/\ pc[r] = "done"
     /\ outcome[r].kind = "rejected"
     /\ \/ Phases(r) = PathRedirect
        \/ Phases(r) = PathRetried /\ outcome[r].error.status = 401)
      => hist[r].redirected

\* ---- handleApiError ----
CarriesMessageField(v) ==
  IsObject(v) /\ v.hasResponse /\ v.dataKind = "object" /\ v.hasMessage
CarriesAxiosMessage(v) == CarriesMessageField(v) /\ v.isAxiosError /\ v.message # ""

\* C10 (as claimed): handleApiError never throws, returns the server's message
\* whenever the value carries a response with a message field, and returns one and
\* the same fallback string in every other case.
C10_OneFallback ==
  errOut.called =>
    /\ ~errOut.threw
    /\ CarriesMessageField(errIn) => errOut.value = errIn.message
    /\ (~CarriesMessageField(errIn) /\ prevOut.called /\ ~CarriesMessageField(prevIn))
         => errOut.value = prevOut.value

\* C10 (amended): handleApiError never throws; it returns the server's message when
\* the value is an Axios error whose response body carries a non-empty message,
\* "An error occurred" for every other Axios error and "An unexpected error
\* occurred" for every value that is not an Axios error.
C10_MessageOrTwoFallbacks ==
  errOut.called =>
    /\ ~errOut.threw
    /\ CarriesAxiosMessage(errIn) => errOut.value = errIn.message
    /\ (IsObject(errIn) /\ errIn.isAxiosError /\ ~CarriesAxiosMessage(errIn))
         => errOut.value = FallbackAxios
    /\ ~(IsObject(errIn) /\ errIn.isAxiosError) => errOut.value = FallbackOther

C10_Witness ==
  /\ errOut.called
  /\ CarriesAxiosMessage(errIn)
  /\ errOut.value = errIn.message
  /\ prevOut.called
  /\ prevIn.type = "null"
  /\ prevOut.value = FallbackOther

\* a path under /api/, and an asset path, as the claim names them
UnderApi(path) == Len(path) >= 3 /\ path[2] = "api" /\ path[3] = "/"
AssetPath(path) == (Len(path) >= 2 /\ path[2] = "_next") \/ "." \in {path[i] : i \in 1..Len(path)}
\* the paths the matcher keeps away from the guard although they are no asset paths
KeptFromGuard(path) ==
  /\ Len(path) >= 2
  /\ \/ path[2] \in {"public", "publications"}
     \/ Len(path) >= 4 /\ path[2] = "favicon" /\ path[3] = "/" /\ path[4] = "ico"
NonEmptyCookie(cookie) == cookie.present /\ cookie.value # ""
Navigated == navDecision # "none"

JarCookie(jar) ==
  IF jar["accessToken"] = NoCookie THEN AbsentCookie
  ELSE [present |-> TRUE, value |-> "valid"]
\* the error state of Login once the catch block of onSubmit ran for call r:
\* setError(handleApiError(error)); the empty string stands for null
LoginError(r) ==
  IF location = LoginPage /\ pc[r] = "done" /\ outcome[r].kind = "rejected"
  THEN handleApiError(outcome[r].error).value
  ELSE ""
\* this step settles the login call r with a failure
LoginFails(r) ==
  /\ pc[r] = "flight"
  /\ stack[r][1].url = LoginUrl
  /\ pc'[r] = "done"
  /\ outcome'[r].kind = "rejected"

\* C12 (as claimed): when the login call succeeds both tokens are stored (1 and 7
\* days) as the page goes to /dashboard and the route guard then lets every
\* navigation pass; when the login call fails no token is stored, the page is the
\* login form and shows a non-empty error, which stays shown on that form until
\* the form is submitted again.
C12_LoginStoresOrShowsError ==
  [][\A r \in Req :
       /\ LoginSuccess(r) =>
            /\ cookies'["accessToken"].expires = AccessExpiryDays
            /\ cookies'["refreshToken"].expires = RefreshExpiryDays
            /\ cookies'["accessToken"].value = defaultAuth'
            /\ location' = DashboardPage
            /\ \A path \in Paths : RouteGuard(path, JarCookie(cookies')) = "next"
       /\ LoginFails(r) =>
            /\ \A n \in CookieNames : cookies'[n] \in {cookies[n], NoCookie}
            /\ location' = LoginPage
            /\ LoginError(r)' # ""
       /\ (LoginError(r) # "" /\ pc'[r] # "flight") =>
            /\ location' = LoginPage
            /\ LoginError(r)' = LoginError(r)]_vars

\* ---- the pages: what a step did, read off the two states ----
NewCalls == {c \in Slots : calls'[c] # NoCall /\ calls'[c] # calls[c]}
ListCalls(cs) == Cardinality({c \in Slots : cs[c].kind = "list"})
Remounted == \E p \in Pages, id \in Ids \cup {0} : Mount(p, id)

\* C13 (as claimed): every API call a page has pending was made through the
\* auth-aware client.
C13_AllCallsThroughClient ==
  \A c \in Slots : calls[c] # NoCall => calls[c].client = "api"

\* C14 (as claimed): a successful response to a list fetch, in either envelope
\* shape, puts the collection it carries into the page's state, sets no error and
\* does not break the render.
C14_BothEnvelopesAccepted ==
  [][\A c \in Slots, body \in ListBodies :
       /\ ListSucceeds(c, body) =>
            /\ rows' = Array(body.ids)
            /\ pageError' \in {pageError, ""}
            /\ ~RenderThrows'
       /\ RefsSucceeds(c, body) =>
            /\ refs' = Array(body.ids)
            /\ pageError' \in {pageError, ""}
            /\ ~RenderThrows'
  ]_vars

\* C15 (as claimed): a call that is rejected leaves the page with the non-empty
\* string handleApiError makes of the error.
C15_FailuresReachTheBanner ==
  [][\A c \in Slots, e \in CallErrors :
       CallFails(c, e) => pageError' # "" /\ pageError' = ErrorString(e)
  ]_vars

\* C16: on the users page an update call carries a password only when one was
\* typed, a create call always carries one, and submitting the create form with
\* no password issues no call, sets an error (of the page or of the field) and
\* leaves the dialog open.
C16_PasswordPolicy ==
  [][\A pw \in PasswordInputs :
       SubmitUser(pw) =>
         /\ \A c \in NewCalls :
              /\ calls'[c].kind = "update" =>
                   calls'[c].password = (IF pw = "valid" THEN "valid" ELSE "absent")
              /\ calls'[c].kind = "create" => calls'[c].password = "valid"
         /\ (dialog.selected = 0 /\ pw # "valid") =>
              /\ NewCalls = {}
              /\ pageError' = PasswordRequired \/ fieldError' = PasswordTooShort
              /\ dialog'.open
  ]_vars

C16_Witness ==
  /\ page = "users"
  /\ dialog = [open |-> TRUE, selected |-> 0]
  /\ pageError = PasswordRequired
  /\ \A c \in Slots : calls[c].kind # "create"

C17_Step ==
  page \in ModalPages =>
    /\ \A c \in Slots :
         ModalSubmitSucceeds(c) =>
           /\ ~dialog'.open
           /\ ListCalls(calls') = ListCalls(calls) + 1
           /\ rows' = rows
    /\ \A c \in Slots, e \in CallErrors :
         (CallFails(c, e) /\ calls[c].kind \in {"create", "update"}) =>
           /\ dialog' = dialog
           /\ ListCalls(calls') = ListCalls(calls)
           /\ rows' = rows
    /\ rows' # rows =>
         \/ \E c \in Slots : calls[c].kind = "list" /\ calls'[c] = NoCall
         \/ Remounted

\* C17: on the users, roles and companies pages a create or update call that
\* succeeds closes the modal and issues exactly one fetch of the collection; one
\* that fails leaves the modal open and issues no fetch; and the collection on
\* the screen changes only when a collection fetch is answered (or the page is
\* mounted anew).
C17_SubmitThenRefetch == [][C17_Step]_vars

C17_Witness ==
  /\ page = "users"
  /\ dialog = [open |-> FALSE, selected |-> 1]
  /\ ListCalls(calls) = 1
  /\ rows = Array({1, 2})

C18_Step ==
  /\ \A c \in NewCalls :
       calls'[c].kind = "delete" => Delete(calls'[c].id, TRUE)
  /\ \A id \in Ids : Delete(id, FALSE) => UNCHANGED pageVars

\* C18: on the users, roles and devices pages a DELETE call goes out only in the
\* step in which the user confirmed the delete of that entity, and a declined
\* confirmation changes nothing.
C18_DeleteOnlyConfirmed == [][C18_Step]_vars

C18_Witness ==
  /\ page = "roles"
  /\ \E c \in Slots : calls[c].kind = "delete" /\ calls[c].id \in rows.ids

\* ---- the edit forms ----
\* the fields an edit form shows and sends, the password apart
EditedFields(kind) == DOMAIN Normalize(kind, fetchedEntity)
Submitted == formStep \in {"sent", "blocked"}
SameAsFetched(payload) ==
  /\ \A f \in EditedFields(formKind) : payload[f] = Normalize(formKind, fetchedEntity)[f]
  /\ formKind = "user" => payload.password = Absent

\* C19 (as claimed): once the edit form of a fetched user, role or device was
\* submitted unchanged, exactly one update call was issued and its payload has
\* the values of the fetched, normalized entity in every field, with no password.
C19_UnchangedRoundTrip ==
  Submitted => Len(updateCalls) = 1 /\ SameAsFetched(updateCalls[1])

\* C20 (as claimed): on the devices page every device whose DELETE call succeeded
\* is absent from the list and every fetched device that was not deleted is
\* still in it.
C20_DeletedGoneOthersStay ==
  (page = "devices" /\ rows.isArray) =>
    /\ rows.ids \cap deleted = {}
    /\ (fetched \ deleted) \subseteq rows.ids

\* ---- concurrent requests ----
RefreshOnWire(r) ==
  pc[r] = "flight" /\ Len(stack[r]) > 1 /\ Top(stack[r]).url = RefreshUrl
StoredRefreshToken == CookiesGet(cookies, "refreshToken")

C22_Step ==
  \A r \in Req :
    UnauthorizedRefresh(r, 401) =>
      /\ Len(stack'[r]) = Len(stack[r]) + 1
      /\ Top(stack'[r]).url = RefreshUrl
      /\ Top(stack'[r]).body = StoredRefreshToken
      /\ hist'[r].refreshCalls = hist[r].refreshCalls + 1
      /\ \A q \in Req \ {r} : stack'[q] = stack[q] /\ hist'[q] = hist[q]
      /\ cookies' = cookies

\* C22: every request answered 401 while a refresh token is stored puts its own
\* refresh call on the wire, whether or not another request's refresh call is
\* pending, and that call carries the refresh token stored at that moment; the
\* step changes neither the store nor any other request, so calls made while the
\* store is untouched carry the same token.
C22_EachRequestRefreshes == [][C22_Step]_vars

C22_Witness ==
  \A r \in Req :
    /\ RefreshOnWire(r)
    /\ Len(stack[r]) = 2
    /\ hist[r].refreshCalls = 1
    /\ Top(stack[r]).body = StoredRefreshToken

C23_Step ==
  \A q \in Req, status \in FailureStatuses, body \in ServerBodies :
    (/\ RefreshFailure(q, status, body)
     /\ Len(stack[q]) = 2
     /\ hist[q].refreshCalls = 1
     /\ StoredRefreshToken # Undefined
     /\ Top(stack[q]).body # StoredRefreshToken) =>
      /\ cookies' = cookies
      /\ reloading' = reloading

\* C23 (as claimed): when the one refresh call made for a request is rejected and
\* the token it carried is not the refresh token now stored (the refresh of
\* another request has stored a new pair meanwhile), the stored pair is kept and
\* no redirect to /login is started.
C23_NewSessionSurvives == [][C23_Step]_vars

C24_Step ==
  \A r \in Req :
    (hist[r].overtaken /\ RefreshOnWire(r)) =>
      /\ RefreshSuccess(r) =>
           /\ CookiesGet(cookies', "accessToken") = IssuedToken
           /\ CookiesGet(cookies', "refreshToken") = IssuedToken
           /\ CookiesGet(cookies', "accessToken") # defaultAuth
      /\ \A status \in FailureStatuses, body \in ServerBodies :
           RefreshFailure(r, status, body) =>
             /\ CookiesGet(cookies', "accessToken") = Undefined
             /\ CookiesGet(cookies', "refreshToken") = Undefined
             /\ reloading'

\* C24: a refresh call that was on the wire when a login succeeded completes as
\* if the login had not happened: its success replaces the stored pair by the
\* pair it was issued, its failure removes both cookies and starts the redirect
\* to /login.
C24_RefreshOvertakenByLogin == [][C24_Step]_vars

\* a login stored its pair while the refresh call of r was on the wire, and the
\* refresh then succeeded and replaced that pair
C24_Witness ==
  \E r \in Req :
    /\ hist[r].overtaken
    /\ hist[r].retries >= 1
    /\ defaultAuth # Undefined
    /\ CookiesGet(cookies, "accessToken") \notin {Undefined, defaultAuth}

C25_Step ==
  \A r \in Req, body \in ServerBodies :
    (/\ pc[r] = "flight"
     /\ Len(stack[r]) = 1
     /\ stack[r][1].url = LoginUrl
     /\ cookies = EmptyJar
     /\ AnsweredWith(r, 401)) =>
      /\ LoginError(r)' = body.message
      /\ location' = LoginPage
      /\ reloading' = FALSE
      /\ hist'[r].refreshCalls = 0

\* C25 (as claimed): a login call made with an empty cookie jar and answered 401
\* with message M leaves the login page showing M, starts no hard navigation and
\* makes no refresh call.
C25_RejectedLoginShowsMessage == [][C25_Step]_vars

\* ---- the dashboard: what a step did, read off the two states ----
HasToken == CookiesGet(cookies, "accessToken") # Undefined
FetchIssued(i) == \E u \in StatsUrls : fetches'[<<u, i>>] > fetches[<<u, i>>]
PairIssued(i) == \A u \in StatsUrls : fetches'[<<u, i>>] = fetches[<<u, i>>] + 1
Ticked == \E t \in TimerIds : Tick(t)

C21_ClaimedStep ==
  /\ (MountDashboard /\ HasToken) => PairIssued(dashInst') /\ ActiveTimers' = {interval'}
  /\ \A t \in TimerIds : Tick(t) => PairIssued(timers[t]) /\ Live(timers[t])
  /\ \A i \in Insts : FetchIssued(i) => Live(i)' /\ (MountDashboard \/ Ticked)
  /\ UnmountDashboard => ActiveTimers' = {}
  /\ (MountDashboard /\ ~HasToken) =>
       location' = LoginPage /\ fetches' = fetches /\ ActiveTimers' = {}

\* C21 (as claimed): a dashboard mounted with a token issues its two fetches and
\* starts its timer, each tick issues the two fetches again, and fetches are
\* issued in no other step; tearing the dashboard down leaves no timer; a
\* dashboard mounted with no token goes to /login, issues no fetch and starts no
\* timer.
C21_FetchOnMountAndTick == [][C21_ClaimedStep]_vars

C21_Step ==
  /\ ((MountDashboard \/ EffectRerun) /\ HasToken) =>
       PairIssued(dashInst') /\ ActiveTimers' = {interval'}
  /\ \A t \in TimerIds : Tick(t) => PairIssued(timers[t]) /\ Live(timers[t])
  /\ \A i \in Insts :
       FetchIssued(i) => Live(i)' /\ (MountDashboard \/ EffectRerun \/ Ticked)
  /\ UnmountDashboard => ActiveTimers' = {}
  /\ ((MountDashboard \/ EffectRerun) /\ ~HasToken) =>
       location' = LoginPage /\ fetches' = fetches /\ ActiveTimers' = {}

\* C21 (amended): as above, with every run of the effect (the mount and each
\* re-run caused by a change of the router object) in the place of the mount.
C21_FetchOnEffectAndTick == [][C21_Step]_vars

\* the mounted dashboard has the fetches of its mount and of one tick pending
C21_Witness ==
  /\ dashMounted
  /\ nextTimer = 1
  /\ ActiveTimers = {1}
  /\ \A u \in StatsUrls : fetches[<<u, dashInst>>] = 2

C26_Step ==
  \A u \in StatsUrls, i \in Insts :
    (/\ ~Live(i)
     /\ \/ \E data \in StatsData : FetchResolves(u, i, data)
        \/ \E status \in {401, 500} : FetchRejected(u, i, status)) =>
      /\ stats' = stats
      /\ location' = location

\* C26 (as claimed): the answer to a fetch of a dashboard that was torn down
\* changes neither the view state nor the route.
C26_NothingAfterTeardown == [][C26_Step]_vars

\* C28: while a dashboard is mounted the only timer that can be active is the
\* one its current effect set, and it belongs to that dashboard; while none is
\* mounted no timer is active.
C28_AtMostOneTimer ==
  /\ dashMounted =>
       /\ ActiveTimers \subseteq {interval}
       /\ \A t \in ActiveTimers : timers[t] = dashInst
  /\ ~dashMounted => ActiveTimers = {}

\* the effect of the second dashboard ran again: the third timer is the only one
C28_Witness ==
  /\ dashMounted
  /\ dashInst = 2
  /\ nextTimer = 3
  /\ ActiveTimers = {3}

\* ---- the devices table ----
PageOf(p) == PaginatedDevices(filteredDevices, p, rowsPerPage)
\* the pages, one after the other
RECURSIVE PagesJoined(_)
PagesJoined(p) == IF p < 0 THEN <<>> ELSE PagesJoined(p - 1) \o PageOf(p)

\* C30 (as claimed): while some device passes the search filter the page on the
\* screen shows at least one row (page * rowsPerPage is below the number of
\* filtered devices), and the pages of the table, one after the other, are the
\* filtered devices, each exactly once.
C30_PageInRange ==
  /\ filteredDevices # <<>> =>
       /\ tablePage * rowsPerPage < Len(filteredDevices)
       /\ paginatedDevices # <<>>
  /\ PagesJoined(LastPage(Len(filteredDevices), rowsPerPage)) = filteredDevices

\* ---- the users page ----
\* C27 (as claimed): an error that one call site displayed is left as it is
\* when the answer to a call of another call site arrives.
C27_Step ==
  \A i \in 1..Len(userCalls) :
    /\ usersError # NoError
    /\ userCalls[i].site # usersError.site
    /\ userCalls[i].answer # 0
    /\ \/ UsersFetched(i)
       \/ CompaniesFetched(i)
       \/ MutationAnswered(i)
    => usersError' = usersError
C27_ErrorOwnedByItsCallSite == [][C27_Step]_vars

\* C29 (as claimed): once no call is on the wire and no error is displayed, the
\* rows on the screen are the server's user collection.
C29_ListMatchesServer ==
  userCalls = <<>> /\ usersError = NoError /\ ~usersLoading => users = srvUsers

====
